---- MODULE Spec2Model ----
(***************************************************************************)
(* Identity / session / authorization core of the Authentication backend:  *)
(* the account store (User model), the passport strategies, the token      *)
(* issuer and the controller's request handlers, as one state machine.     *)
(*                                                                         *)
(* Spec      : requests are handled one after the other (each handler is   *)
(*             one step; an OAuth callback is the strategy's verify step   *)
(*             followed by the controller's step).                         *)
(* SpecLocal, SpecOAuth : the local flows, and the federated flows with   *)
(*             the gated routes, each with the clock.                      *)
(* SpecRace  : OAuth callbacks overlap; the strategy's lookup and its      *)
(*             create are separate steps (they are separate awaits).       *)
(* SpecLocalRace : local requests overlap in the same way.                 *)
(* SpecLive  : the local flows with the clock and a delivering email       *)
(*             capability, with fairness for each account's owner.         *)
(***************************************************************************)
EXTENDS Integers, Sequences, FiniteSets, TLC

VARIABLES users, otpLog, now, env, req, tokens, response, inflight

vars == <<users, otpLog, now, env, req, tokens, response, inflight>>

(***************************************************************************)
(* Bounds of the model.                                                    *)
(***************************************************************************)
MaxUsers == 2
MaxTime == 2
MaxTokens == 1
MaxInflight == 2

(***************************************************************************)
(* Configuration: durations in clock ticks.                                *)
(***************************************************************************)
OTP_TTL == 1
JWT_EXPIRES_IN == 1

(***************************************************************************)
(* Input domains.                                                          *)
(***************************************************************************)
RawEmails == {"a@x.com", "A@x.com", "b@x.com"}
RegisterEmails == {"a@x.com", "A@x.com"}
Passwords == {"p1", "p2"}
RegisterPasswords == {"p1"}
Codes == {"111111", "222222"}
Providers == {"google", "facebook"}
ProviderIds == {"pid1"}
Roles == {"user", "admin"}
RequestedRoles == {"user", "admin", "root"}
Envs == {"development", "production"}

Undefined == "undefined"
NoExpires == 0 - 1
NoHash == [alg |-> "none", pre |-> ""]

(***************************************************************************)
(* Schema setter `lowercase: true` on email.                               *)
(***************************************************************************)
Lower(e) == IF e = "A@x.com" THEN "a@x.com" ELSE e

(***************************************************************************)
(* Credential verifier (bcrypt) and OTP digest.                            *)
(***************************************************************************)
HashPassword(p) == [alg |-> "bcrypt", pre |-> p]

comparePassword(user, candidate) ==
    /\ user.password # NoHash
    /\ HashPassword(candidate) = user.password

HashOTP(c) == [alg |-> "otp", pre |-> c]

\* issue: store {hash(code), now + TTL}, overwriting any prior challenge
generateOTP(user, code, t) ==
    [user EXCEPT !.otpSecret = HashOTP(code), !.otpExpires = t + OTP_TTL]

\* verify: fails closed
verifyOTP(user, otp, t) ==
    /\ user.otpSecret # NoHash
    /\ user.otpExpires # NoExpires
    /\ ~(t > user.otpExpires)
    /\ HashOTP(otp) = user.otpSecret

(***************************************************************************)
(* Documents of the account store.                                         *)
(***************************************************************************)
HexString(n) == [kind |-> "hex", n |-> n]
ObjectId(n) == [id |-> [kind |-> "bytes", n |-> n]]

\* User.create({name, email, password, role}) of the local register flow
NewLocalUser(name, email, password, role) ==
    [method |-> "local", name |-> name, email |-> Lower(email),
     avatar |-> Undefined, role |-> role,
     password |-> HashPassword(password),
     googleId |-> Undefined, facebookId |-> Undefined,
     isEmailVerified |-> FALSE,
     otpSecret |-> NoHash, otpExpires |-> NoExpires]

\* the loaded document of account n: the stored fields, _id and the id virtual
Doc(n) == users[n] @@ [_id |-> ObjectId(n), id |-> HexString(n)]

\* User.findOne({ email }): the first account in natural order, 0 when none
FindByEmail(us, email) ==
    LET hits == {i \in 1..Len(us) : us[i].email = Lower(email)}
    IN  IF hits = {} THEN 0 ELSE CHOOSE i \in hits : \A j \in hits : i <= j

NoLog == [last |-> "", old |-> {}, used |-> {}, regSent |-> TRUE, handed |-> TRUE]

\* history of the plaintext codes of an account: the one issued last, the ones
\* issued before it and since replaced, the ones verify-email accepted
LogIssue(l, code) ==
    [l EXCEPT !.last = code, !.handed = TRUE,
              !.old = (IF l.last = "" THEN l.old ELSE l.old \cup {l.last}) \ {code}]

LogAccept(l, code) == [l EXCEPT !.used = l.used \cup {code}]

\* the code issued last was not passed to sendOTPEmail
LogNotHanded(l) == [l EXCEPT !.handed = FALSE]

\* whether the code of the registration was delivered
LogRegister(code, emailSent) == [LogIssue(NoLog, code) EXCEPT !.regSent = emailSent]

(***************************************************************************)
(* Token issuer.                                                           *)
(***************************************************************************)
NoToken == [id |-> [kind |-> "none", n |-> 0], email |-> Undefined,
            role |-> Undefined, exp |-> 0]

Prop(obj, f) == IF f \in DOMAIN obj THEN obj[f] ELSE Undefined

\* jwt.sign({id: user.id, email: user.email, role: user.role}, ..., {expiresIn})
generateToken(user, t) ==
    [id |-> user.id, email |-> Prop(user, "email"), role |-> Prop(user, "role"),
     exp |-> t + JWT_EXPIRES_IN]

NoReq == [active |-> FALSE, provider |-> "", isAdminLogin |-> FALSE,
          n |-> 0, email |-> "", role |-> ""]

\* a response body without an account in it
NoData == <<>>

NoResponse == [op |-> "none", status |-> 0, msg |-> "", token |-> NoToken,
               otp |-> Undefined, data |-> NoData, g |-> [uid |-> 0]]

\* res.status(status).json({ success, message, token, data: { user } | user })
RespondData(op, status, msg, token, otp, data, g) ==
    [op |-> op, status |-> status, msg |-> msg, token |-> token, otp |-> otp,
     data |-> data, g |-> g]

Respond(op, status, msg, token, otp, g) ==
    RespondData(op, status, msg, token, otp, NoData, g)

\* the paths the schema declares select: false
HiddenFields == {"password", "otpSecret", "otpExpires"}

\* the document a query loads: the default projection and the paths .select('+path') adds
Select(user, plus) ==
    [f \in (DOMAIN user) \ (HiddenFields \ plus) |-> user[f]]

\* mutant: the code is put in the body whatever the mode
DevOtp_Always(code) == code

\* otp: process.env.NODE_ENV === 'development' ? otp : undefined
DevOtp(code) == IF env = "development" THEN code ELSE Undefined

\* the client keeps the token it was handed, or drops it
Keep(tok) ==
    \/ tokens' = tokens
    \/ /\ Cardinality(tokens \cup {tok}) <= MaxTokens
       /\ tokens' = tokens \cup {tok}

Init ==
    /\ users = <<>>
    /\ otpLog = <<>>
    /\ now = 0
    /\ env \in Envs
    /\ req = NoReq
    /\ tokens = {}
    /\ response = NoResponse
    /\ inflight = <<>>

\* no OAuth callback is between the strategy and the controller
Idle == ~req.active

\* NODE_ENV=development
InitDev == Init /\ env = "development"

Tick ==
    /\ Idle
    /\ now < MaxTime
    /\ now' = now + 1
    /\ UNCHANGED <<users, otpLog, env, req, tokens, response, inflight>>

(***************************************************************************)
(* POST /api/auth/register, POST /api/auth/admin/register                  *)
(***************************************************************************)
\* mutant: the lookup before the create is skipped
RegisterUserExists_Never(email) == FALSE

\* let user = await User.findOne({ email }); if (user)
RegisterUserExists(email) == FindByEmail(users, email) # 0

RegisterRole(isAdminLogin) == IF isAdminLogin THEN "admin" ELSE "user"

\* mutant: the challenge is never generated and saved
RegisterCreated_NoChallenge(name, email, password, isAdminLogin, code, t) ==
    NewLocalUser(name, email, password, RegisterRole(isAdminLogin))

\* user = await User.create({...}); const otp = user.generateOTP(); await user.save()
RegisterCreated(name, email, password, isAdminLogin, code, t) ==
    generateOTP(NewLocalUser(name, email, password, RegisterRole(isAdminLogin)), code, t)

\* mutant: the result of sendOTPEmail is not looked at
DeliveryFailed_Ignored(emailSent) == FALSE

\* if (!emailSent)
DeliveryFailed(emailSent) == ~emailSent

RegisterGhost(email, emailSent) ==
    [uid |-> IF FindByEmail(users, email) # 0 THEN FindByEmail(users, email)
             ELSE Len(users'),
     taken |-> (\E i \in 1..Len(users) : users[i].email = Lower(email)),
     emailSent |-> emailSent,
     added |-> Len(users') - Len(users),
     changed |-> SubSeq(users', 1, Len(users)) # users,
     issued |-> SubSeq(otpLog', 1, Len(otpLog)) # otpLog]

register(name, email, password, isAdminLogin, code, emailSent) ==
    /\ Idle
    /\ IF RegisterUserExists(email)
       THEN /\ UNCHANGED <<users, otpLog>>
            /\ response' = Respond("register", 400, "User already exists", NoToken,
                                   Undefined, RegisterGhost(email, TRUE))
       ELSE /\ Len(users) < MaxUsers
            /\ users' = Append(users,
                   RegisterCreated(name, email, password, isAdminLogin, code, now))
            /\ otpLog' = Append(otpLog, LogRegister(code, emailSent))
            /\ response' =
                 IF DeliveryFailed(emailSent)
                 THEN Respond("register", 500, "Error sending verification email",
                              NoToken, Undefined, RegisterGhost(email, emailSent))
                 ELSE Respond("register", 200, "registered", NoToken, DevOtp(code),
                              RegisterGhost(email, emailSent))
    /\ UNCHANGED <<now, env, req, tokens, inflight>>

\* mutant: the new challenge is not saved
ReissueChallenge_NotSaved(user, code, t) == user

\* const otp = user.generateOTP(); await user.save()   (resend-verification, login)
ReissueChallenge(user, code, t) == generateOTP(user, code, t)

ResendGhost(n, code) ==
    [uid |-> n,
     wasVerified |-> (n # 0 /\ users[n].isEmailVerified),
     issued |-> (/\ n # 0
                 /\ users'[n].otpSecret = HashOTP(code)
                 /\ users'[n].otpExpires = now + OTP_TTL)]

(***************************************************************************)
(* POST /api/auth/resend-verification                                      *)
(***************************************************************************)
resendVerification(email, code, emailSent) ==
    LET n == FindByEmail(users, email) IN
    /\ Idle
    /\ IF n = 0
       THEN /\ UNCHANGED <<users, otpLog>>
            /\ response' = Respond("resendVerification", 404, "User not found",
                                   NoToken, Undefined, ResendGhost(n, code))
       ELSE IF users[n].isEmailVerified
       THEN /\ UNCHANGED <<users, otpLog>>
            /\ response' = Respond("resendVerification", 400,
                                   "Email is already verified", NoToken, Undefined,
                                   ResendGhost(n, code))
       ELSE /\ users' = [users EXCEPT ![n] = ReissueChallenge(@, code, now)]
            /\ otpLog' = [otpLog EXCEPT ![n] = LogIssue(@, code)]
            /\ response' =
                 IF DeliveryFailed(emailSent)
                 THEN Respond("resendVerification", 500,
                              "Error sending verification email", NoToken, Undefined,
                              ResendGhost(n, code))
                 ELSE Respond("resendVerification", 200,
                              "Verification email sent successfully", NoToken,
                              DevOtp(code), ResendGhost(n, code))
    /\ UNCHANGED <<now, env, req, tokens, inflight>>

(***************************************************************************)
(* POST /api/auth/login, POST /api/auth/admin/login                        *)
(***************************************************************************)
\* if (!user || !(await user.comparePassword(password)))
LoginCredentialsOk(n, password) == n # 0 /\ comparePassword(users[n], password)

\* mutant: only the admin surface checks the role
AdminRoleMismatch_AdminSurfaceOnly(isAdminLogin, user) ==
    isAdminLogin /\ user.role # "admin"

\* req.isAdminLogin && user.role !== 'admin', !req.isAdminLogin && user.role === 'admin'
AdminRoleMismatch(isAdminLogin, user) ==
    \/ isAdminLogin /\ user.role # "admin"
    \/ ~isAdminLogin /\ user.role = "admin"

\* mutant: login does not look at isEmailVerified
LoginRequiresVerification_Skipped(user) == FALSE

\* if (!user.isEmailVerified)
LoginRequiresVerification(user) == ~user.isEmailVerified

\* generateToken(user._id)
LoginToken(n, t) == generateToken(Doc(n)._id, t)

LoginGhost(n, password, isAdminLogin, code) ==
    [uid |-> n,
     credsOk |-> (n # 0 /\ users[n].password = HashPassword(password)),
     isAdminLogin |-> isAdminLogin,
     wasVerified |-> (n # 0 /\ users[n].isEmailVerified),
     issued |-> (/\ n # 0
                 /\ users'[n].otpSecret = HashOTP(code)
                 /\ users'[n].otpExpires = now + OTP_TTL),
     changed |-> users' # users]

login(email, password, isAdminLogin, code) ==
    LET n == FindByEmail(users, email) IN
    /\ Idle
    /\ IF ~LoginCredentialsOk(n, password)
       THEN /\ UNCHANGED <<users, otpLog, tokens>>
            /\ response' = Respond("login", 401, "Invalid credentials", NoToken,
                                   Undefined, LoginGhost(n, password, isAdminLogin, code))
       ELSE IF AdminRoleMismatch(isAdminLogin, users[n])
       THEN /\ UNCHANGED <<users, otpLog, tokens>>
            /\ response' = Respond("login", 403, "Forbidden", NoToken, Undefined,
                                   LoginGhost(n, password, isAdminLogin, code))
       ELSE IF LoginRequiresVerification(users[n])
       THEN /\ users' = [users EXCEPT ![n] = ReissueChallenge(@, code, now)]
            /\ otpLog' = [otpLog EXCEPT ![n] = LogNotHanded(LogIssue(@, code))]
            /\ UNCHANGED tokens
            /\ response' = Respond("login", 401, "Please verify your email first",
                                   NoToken, DevOtp(code),
                                   LoginGhost(n, password, isAdminLogin, code))
       ELSE /\ UNCHANGED <<users, otpLog>>
            /\ Keep(LoginToken(n, now))
            /\ response' = RespondData("login", 200, "OK", LoginToken(n, now),
                                       Undefined, Select(users[n], {"password"}),
                                       LoginGhost(n, password, isAdminLogin, code))
    /\ UNCHANGED <<now, env, req, inflight>>

(***************************************************************************)
(* POST /api/auth/verify-email                                             *)
(***************************************************************************)
\* the bindings of the controller module: its three require() lines
ControllerBindings == {"User", "generateToken", "sendOTPEmail"}

\* mutant: the verification is never written to the account
MarkVerified_NotSaved(user) == user

\* mutant: the challenge is left in place
MarkVerified_KeepsChallenge(user) == [user EXCEPT !.isEmailVerified = TRUE]

\* user.isEmailVerified = true; user.otpSecret = undefined; user.otpExpires = undefined
MarkVerified(user) ==
    [user EXCEPT !.isEmailVerified = TRUE, !.otpSecret = NoHash,
                 !.otpExpires = NoExpires]

\* mutant: the result of verifyOTP is not looked at
VerifyRejected_Never(user, otp, t) == FALSE

\* if (!user.verifyOTP(otp))
VerifyRejected(user, otp, t) == ~verifyOTP(user, otp, t)

VerifyGhost(n, otp) ==
    [uid |-> n,
     outstanding |-> (n # 0 /\ users[n].otpSecret # NoHash),
     current |-> (n # 0 /\ users[n].otpSecret # NoHash /\ otpLog[n].last = otp),
     expired |-> (n # 0 /\ users[n].otpSecret # NoHash /\ now > users[n].otpExpires),
     superseded |-> (n # 0 /\ otp \in otpLog[n].old),
     replay |-> (n # 0 /\ otp \in otpLog[n].used),
     changed |-> users' # users]

verifyEmail(email, otp) ==
    LET n == FindByEmail(users, email) IN
    /\ Idle
    /\ IF n = 0
       THEN /\ UNCHANGED <<users, otpLog, tokens>>
            /\ response' = Respond("verifyEmail", 404, "User not found", NoToken,
                                   Undefined, VerifyGhost(n, otp))
       ELSE IF VerifyRejected(users[n], otp, now)
       THEN /\ UNCHANGED <<users, otpLog, tokens>>
            /\ response' = Respond("verifyEmail", 401, "Invalid or expired OTP",
                                   NoToken, Undefined, VerifyGhost(n, otp))
       ELSE /\ users' = [users EXCEPT ![n] = MarkVerified(@)]
            /\ otpLog' = [otpLog EXCEPT ![n] = LogAccept(@, otp)]
            /\ IF "signToken" \in ControllerBindings
               THEN /\ Keep(generateToken(Doc(n)._id, now))
                    /\ response' = RespondData("verifyEmail", 200,
                                               "Email verified successfully",
                                               generateToken(Doc(n)._id, now),
                                               Undefined,
                                               Select(users'[n],
                                                      {"otpSecret", "otpExpires"}),
                                               VerifyGhost(n, otp))
               ELSE \* ReferenceError, caught: res.status(500)
                    /\ UNCHANGED tokens
                    /\ response' = Respond("verifyEmail", 500,
                                           "signToken is not defined", NoToken,
                                           Undefined, VerifyGhost(n, otp))
    /\ UNCHANGED <<now, env, req, inflight>>

(***************************************************************************)
(* Passport strategies: find-or-create the account linked to the profile.  *)
(***************************************************************************)
Profiles ==
    {[id |-> "pid1", displayName |-> "A", emails |-> <<"a@x.com">>,
      photos |-> <<"pic1">>],
     [id |-> "pid1", displayName |-> "B", emails |-> <<>>, photos |-> <<>>]}

ProviderId(user, provider) ==
    IF provider = "google" THEN user.googleId ELSE user.facebookId

\* mutant: the query names a path no document has
FindByProviderId_Miss(us, provider, pid) == 0

\* User.findOne({ 'google.id': profile.id }) / User.findOne({ 'facebook.id': ... })
FindByProviderId(us, provider, pid) ==
    LET hits == {i \in 1..Len(us) : ProviderId(us[i], provider) = pid}
    IN  IF hits = {} THEN 0 ELSE CHOOSE i \in hits : \A j \in hits : i <= j

\* mutant: the document is created without its method
NewProviderUser_AsLocal(provider, profile) ==
    [method |-> "local", name |-> profile.displayName, email |-> "",
     avatar |-> "", role |-> "user", password |-> NoHash,
     googleId |-> IF provider = "google" THEN profile.id ELSE Undefined,
     facebookId |-> IF provider = "facebook" THEN profile.id ELSE Undefined,
     isEmailVerified |-> FALSE, otpSecret |-> NoHash, otpExpires |-> NoExpires]

\* new User({ method, google|facebook: {id, email}, email, name, role: 'user', avatar })
NewProviderUser(provider, profile) ==
    LET email == IF Len(profile.emails) > 0 THEN profile.emails[1] ELSE ""
    IN  [method |-> provider, name |-> profile.displayName, email |-> Lower(email),
         avatar |-> IF Len(profile.photos) > 0 THEN profile.photos[1] ELSE "",
         role |-> "user",
         password |-> NoHash,
         googleId |-> IF provider = "google" THEN profile.id ELSE Undefined,
         facebookId |-> IF provider = "facebook" THEN profile.id ELSE Undefined,
         isEmailVerified |-> FALSE,
         otpSecret |-> NoHash, otpExpires |-> NoExpires]

\* name, email and avatar of the accounts in the store
Identity(us) == [i \in 1..Len(us) |-> <<us[i].name, us[i].email, us[i].avatar>>]

\* done(null, user): passport sets req.user to the document
ReqUser(provider, isAdminLogin, n, us) ==
    [active |-> TRUE, provider |-> provider, isAdminLogin |-> isAdminLogin,
     n |-> n, email |-> us[n].email, role |-> us[n].role]

\* the verify callback of the strategy, run by passport.authenticate on the
\* callback route (the admin routes set req.isAdminLogin first)
StrategyVerify(provider, profile, isAdminLogin) ==
    LET existingUser == FindByProviderId(users, provider, profile.id) IN
    /\ Idle
    /\ IF existingUser # 0
       THEN /\ UNCHANGED <<users, otpLog>>
            /\ req' = ReqUser(provider, isAdminLogin, existingUser, users)
       ELSE /\ Len(users) < MaxUsers
            /\ users' = Append(users, NewProviderUser(provider, profile))
            /\ otpLog' = Append(otpLog, NoLog)
            /\ req' = ReqUser(provider, isAdminLogin, Len(users'), users')
    \* the request is between its two handlers: no response yet
    /\ response' = Respond("passport", 0, "", NoToken, Undefined,
                           [uid |-> req'.n,
                            known |-> (\E i \in 1..Len(users) :
                                          ProviderId(users[i], provider) = profile.id),
                            drift |-> (\E i \in 1..Len(users) :
                                          /\ ProviderId(users[i], provider) = profile.id
                                          /\ users[i].name # profile.displayName),
                            added |-> Len(users') - Len(users),
                            changed |-> SubSeq(users', 1, Len(users)) # users])
    /\ UNCHANGED <<now, env, tokens, inflight>>

(***************************************************************************)
(* GET /api/auth/(admin/)google/callback, .../facebook/callback            *)
(***************************************************************************)
\* if (req.isAdminLogin) { req.user.role = 'admin'; findByIdAndUpdate(..., {role}) }
CallbackRole(r) == IF r.isAdminLogin THEN "admin" ELSE r.role

\* mutant: the role is set on req.user only
CallbackStore_NotSaved(us, r) == us

\* mutant: the callback stores the role of the route it came in on
CallbackStore_RouteRole(us, r) ==
    [us EXCEPT ![r.n].role = IF r.isAdminLogin THEN "admin" ELSE "user"]

CallbackStore(us, r) ==
    IF r.isAdminLogin THEN [us EXCEPT ![r.n].role = "admin"] ELSE us

\* the challenge fields of the accounts in the store
Challenges(us) == [i \in 1..Len(us) |-> <<us[i].otpSecret, us[i].otpExpires>>]

\* what the callback found and did: the account passport resolved, whether the
\* strategy found it or created it, its stored role before the controller's step
CallbackGhost(r, known) ==
    [uid |-> r.n, isAdminLogin |-> r.isAdminLogin,
     provider |-> r.provider, known |-> known, priorRole |-> users[r.n].role,
     identityChanged |-> Identity(users') # Identity(users),
     challengeChanged |-> Challenges(users') # Challenges(users),
     changed |-> users' # users]

\* generateToken(req.user)
CallbackToken(r, t) ==
    generateToken([id |-> HexString(r.n), email |-> r.email, role |-> CallbackRole(r)],
                  t)

googleCallback ==
    /\ req.active /\ req.provider = "google"
    /\ users' = CallbackStore(users, req)
    /\ Keep(CallbackToken(req, now))
    /\ response' = Respond("oauthCallback", 302,
                           IF CallbackRole(req) = "admin" THEN "/admin/dashboard"
                                                          ELSE "/dashboard",
                           CallbackToken(req, now), Undefined,
                           CallbackGhost(req, response.g.known))
    /\ req' = NoReq
    /\ UNCHANGED <<otpLog, now, env, inflight>>

facebookCallback ==
    /\ req.active /\ req.provider = "facebook"
    /\ users' = CallbackStore(users, req)
    /\ Keep(CallbackToken(req, now))
    /\ response' = Respond("oauthCallback", 302, "/auth/success",
                           CallbackToken(req, now), Undefined,
                           CallbackGhost(req, response.g.known))
    /\ req' = NoReq
    /\ UNCHANGED <<otpLog, now, env, inflight>>

(***************************************************************************)
(* Authorization gate: protect, authorize('admin')                         *)
(***************************************************************************)
\* User.findById(id)
FindById(us, id) ==
    IF id.kind = "hex" /\ id.n \in 1..Len(us) THEN id.n ELSE 0

\* authenticate(token): signature, expiry, then re-resolve by subjectId
protect(token, t) ==
    IF token \in tokens /\ t < token.exp THEN FindById(users, token.id) ELSE 0

\* mutant: the gate trusts the role claim of the token
GateAccount_FromClaims(token, caller) == [role |-> token.role]

\* req.user, as protect leaves it: the account re-resolved from the store
GateAccount(token, caller) == users[caller]

authorize(user, requiredRole) == user.role = requiredRole

(***************************************************************************)
(* GET /api/auth/user                                                      *)
(***************************************************************************)
getCurrentUser(token) ==
    LET caller == protect(token, now)
        user == IF caller = 0 THEN 0 ELSE FindById(users, HexString(caller))
        g == [uid |-> user, caller |-> caller] IN
    /\ Idle
    /\ response' =
         IF caller = 0
         THEN Respond("getCurrentUser", 401, "Unauthenticated", NoToken, Undefined, g)
         ELSE IF user = 0
         THEN Respond("getCurrentUser", 404, "User not found", NoToken, Undefined, g)
         ELSE RespondData("getCurrentUser", 200, "OK", NoToken, Undefined,
                          Select(users[user], {}), g)
    /\ UNCHANGED <<users, otpLog, now, env, req, tokens, inflight>>

(***************************************************************************)
(* PUT /api/auth/role/:userId                                              *)
(***************************************************************************)
\* !role || !['user', 'admin'].includes(role)
InvalidRole(role) == role \notin {"user", "admin"}

\* mutant: the route asks for the role every account starts with
RoleRouteRequiredRole_User == "user"

\* router.put('/role/:userId', protect, authorize('admin'), updateUserRole)
RoleRouteRequiredRole == "admin"

\* req.params.userId: the id strings of the accounts the store can hold, and a
\* string that is not an ObjectId
UserIdParams ==
    {HexString(n) : n \in 1..MaxUsers} \cup {[kind |-> "malformed", n |-> 0]}

\* User.findById(req.params.userId) rejects with a CastError when the string
\* cannot be cast to an ObjectId; the handler's catch answers 500
CastError(id) == id.kind # "hex"

\* the roles of the accounts other than account n
OtherRoles(us, n) == [i \in (1..Len(us)) \ {n} |-> us[i].role]

updateUserRole(token, userId, role) ==
    LET caller == protect(token, now)
        target == FindById(users, userId)
        g == [uid |-> target, caller |-> caller,
              callerRole |-> IF caller = 0 THEN Undefined ELSE users[caller].role,
              tokenRole |-> token.role,
              role |-> IF caller # 0 /\ users[caller].role = "admin"
                       THEN role ELSE Undefined,
              wellFormed |-> (caller # 0 /\ users[caller].role = "admin")
                                 => userId.kind = "hex",
              othersChanged |-> OtherRoles(users', target) # OtherRoles(users, target),
              changed |-> users' # users] IN
    /\ Idle
    /\ IF caller = 0
       THEN /\ UNCHANGED users
            /\ response' = Respond("updateUserRole", 401, "Unauthenticated", NoToken,
                                   Undefined, g)
       ELSE IF ~authorize(GateAccount(token, caller), RoleRouteRequiredRole)
       THEN /\ UNCHANGED users
            /\ response' = Respond("updateUserRole", 403, "Forbidden", NoToken,
                                   Undefined, g)
       ELSE IF InvalidRole(role)
       THEN /\ UNCHANGED users
            /\ response' = Respond("updateUserRole", 400, "invalid role", NoToken,
                                   Undefined, g)
       ELSE IF CastError(userId)
       THEN /\ UNCHANGED users
            /\ response' = Respond("updateUserRole", 500, "Server Error", NoToken,
                                   Undefined, g)
       ELSE IF target = 0
       THEN /\ UNCHANGED users
            /\ response' = Respond("updateUserRole", 404, "No user found", NoToken,
                                   Undefined, g)
       ELSE /\ users' = [users EXCEPT ![target].role = role]
            /\ response' = RespondData("updateUserRole", 200, "OK", NoToken,
                                       Undefined, Select(users'[target], {}), g)
    /\ UNCHANGED <<otpLog, now, env, req, tokens, inflight>>

(***************************************************************************)
(* GET /api/auth/logout                                                    *)
(***************************************************************************)
\* mutant: logging out revokes the tokens handed out so far
LogoutTokens_Revoked(toks) == {}

\* req.logout(...) ends the passport login of the session; the server keeps no
\* record of the tokens it signed, so every copy of one stays as good as it was
LogoutTokens(toks) == toks

\* the account each token in circulation authenticates as, before the logout
LogoutGhost ==
    [uid |-> 0,
     auth |-> [tok \in tokens |-> protect(tok, now)],
     changed |-> users' # users]

logout ==
    /\ Idle
    /\ tokens' = LogoutTokens(tokens)
    /\ UNCHANGED users
    /\ response' = Respond("logout", 200, "Successfully logged out", NoToken,
                           Undefined, LogoutGhost)
    /\ UNCHANGED <<otpLog, now, env, req, inflight>>

(***************************************************************************)
(* Requests handled one after the other.                                   *)
(***************************************************************************)
LocalRequest ==
    \/ \E e \in RegisterEmails, p \in RegisterPasswords, a \in BOOLEAN, c \in Codes,
          s \in BOOLEAN : register("A", e, p, a, c, s)
    \/ \E e \in RawEmails, c \in Codes, s \in BOOLEAN : resendVerification(e, c, s)
    \/ \E e \in RawEmails, p \in Passwords, a \in BOOLEAN, c \in Codes :
          login(e, p, a, c)
    \/ \E e \in RawEmails, c \in Codes : verifyEmail(e, c)

GatedRequest ==
    \/ \E tok \in tokens \cup {NoToken}, u \in UserIdParams, r \in RequestedRoles :
          updateUserRole(tok, u, r)
    \/ \E tok \in tokens \cup {NoToken} : getCurrentUser(tok)

OAuthRequest ==
    \/ \E pr \in Providers, pf \in Profiles, a \in BOOLEAN : StrategyVerify(pr, pf, a)
    \/ googleCallback
    \/ facebookCallback

\* every flow, at one instant of the clock
Next ==
    \/ LocalRequest
    \/ GatedRequest
    \/ OAuthRequest
    \/ logout

Spec == InitDev /\ [][Next]_vars

\* the local flows, with the clock
NextLocal ==
    \/ Tick
    \/ LocalRequest

SpecLocal == Init /\ [][NextLocal]_vars

\* the federated flows and the authorization gate, with the clock
NextOAuth ==
    \/ Tick
    \/ GatedRequest
    \/ OAuthRequest
    \/ logout

SpecOAuth == InitDev /\ [][NextOAuth]_vars
(***************************************************************************)
(* Overlapping OAuth callbacks: the strategy's findOne and its save are    *)
(* separate awaits, so other callbacks run between them.                   *)
(***************************************************************************)
\* google.id / facebook.id: { type: String, sparse: true } declares no unique index
ProviderIdUnique == FALSE

RaceArrive(provider, profile, isAdminLogin) ==
    /\ Len(inflight) < MaxInflight
    /\ inflight' = Append(inflight,
           [pc |-> "findOne", provider |-> provider, profile |-> profile,
            isAdminLogin |-> isAdminLogin, known |-> FALSE, user |-> NoReq])
    /\ UNCHANGED <<users, otpLog, now, env, req, tokens, response>>

\* const existingUser = await User.findOne(...); if (existingUser) return done(null, ...)
RaceFindOne(i) ==
    LET r == inflight[i]
        existingUser == FindByProviderId(users, r.provider, r.profile.id) IN
    /\ r.pc = "findOne"
    /\ inflight' = [inflight EXCEPT ![i] =
           IF existingUser # 0
           THEN [r EXCEPT !.pc = "callback", !.known = TRUE,
                          !.user = ReqUser(r.provider, r.isAdminLogin, existingUser, users)]
           ELSE [r EXCEPT !.pc = "save"]]
    /\ UNCHANGED <<users, otpLog, now, env, req, tokens, response>>

\* await newUser.save(); done(null, newUser) -- or done(error, null)
RaceSave(i) ==
    LET r == inflight[i] IN
    /\ r.pc = "save"
    /\ IF ProviderIdUnique /\ FindByProviderId(users, r.provider, r.profile.id) # 0
       THEN /\ inflight' = [inflight EXCEPT ![i].pc = "failed"]
            /\ UNCHANGED <<users, otpLog>>
       ELSE /\ Len(users) < MaxUsers
            /\ users' = Append(users, NewProviderUser(r.provider, r.profile))
            /\ otpLog' = Append(otpLog, NoLog)
            /\ inflight' = [inflight EXCEPT ![i] =
                   [r EXCEPT !.pc = "callback",
                             !.user = ReqUser(r.provider, r.isAdminLogin,
                                              Len(users'), users')]]
    /\ UNCHANGED <<now, env, req, tokens, response>>

\* googleCallback / facebookCallback of request i
RaceCallback(i) ==
    LET r == inflight[i] IN
    /\ r.pc = "callback"
    /\ users' = CallbackStore(users, r.user)
    /\ response' = Respond("oauthCallback", 302,
                           IF r.provider = "google" /\ CallbackRole(r.user) = "admin"
                           THEN "/admin/dashboard"
                           ELSE IF r.provider = "google" THEN "/dashboard"
                           ELSE "/auth/success",
                           CallbackToken(r.user, now), Undefined,
                           CallbackGhost(r.user, r.known))
    /\ inflight' = [inflight EXCEPT ![i].pc = "done"]
    /\ UNCHANGED <<otpLog, now, env, req, tokens>>

NextRace ==
    \/ \E pr \in Providers, pf \in Profiles, a \in BOOLEAN : RaceArrive(pr, pf, a)
    \/ \E i \in 1..Len(inflight) : RaceFindOne(i)
    \/ \E i \in 1..Len(inflight) : RaceSave(i)
    \/ \E i \in 1..Len(inflight) : RaceCallback(i)

SpecRace == InitDev /\ [][NextRace]_vars
(***************************************************************************)
(* Overlapping local requests: a handler's findOne and its create or save  *)
(* are separate awaits, so other requests run between them.  save() writes *)
(* the paths the handler modified onto the stored document.                *)
(***************************************************************************)
\* email: { type: String, lowercase: true, match: ... } declares no unique index
EmailUnique == FALSE

RaceOps == {"register", "verifyEmail", "resendVerification", "login"}

LocalArrive(op, email, code) ==
    /\ Len(inflight) < MaxInflight
    /\ inflight' = Append(inflight,
           [op |-> op, pc |-> "findOne", email |-> email, code |-> code,
            n |-> 0, status |-> 0, accepted |-> FALSE, token |-> NoToken])
    /\ UNCHANGED <<users, otpLog, now, env, req, tokens, response>>

\* the request answers and is over
LocalDone(i, status, msg, accepted, token) ==
    /\ inflight' = [inflight EXCEPT ![i].pc = "done", ![i].status = status,
                                    ![i].accepted = accepted, ![i].token = token]
    /\ response' = Respond(inflight[i].op, status, msg, token, Undefined,
                           [uid |-> inflight'[i].n])

\* await User.findOne({ email }) and the checks on the loaded document
LocalFindOne(i) ==
    LET r == inflight[i]
        n == FindByEmail(users, r.email) IN
    /\ r.pc = "findOne"
    /\ UNCHANGED <<users, otpLog, now, env, req>>
    /\ IF r.op = "register"
       THEN IF RegisterUserExists(r.email)
            THEN LocalDone(i, 400, "User already exists", FALSE, NoToken)
                 /\ UNCHANGED tokens
            ELSE /\ inflight' = [inflight EXCEPT ![i].pc = "create"]
                 /\ UNCHANGED <<tokens, response>>
       ELSE IF r.op = "login" /\ ~LoginCredentialsOk(n, "p1")
       THEN LocalDone(i, 401, "Invalid credentials", FALSE, NoToken)
            /\ UNCHANGED tokens
       ELSE IF n = 0
       THEN LocalDone(i, 404, "User not found", FALSE, NoToken) /\ UNCHANGED tokens
       ELSE IF r.op = "verifyEmail" /\ VerifyRejected(users[n], r.code, now)
       THEN LocalDone(i, 401, "Invalid or expired OTP", FALSE, NoToken)
            /\ UNCHANGED tokens
       ELSE IF r.op = "resendVerification" /\ users[n].isEmailVerified
       THEN LocalDone(i, 400, "Email is already verified", FALSE, NoToken)
            /\ UNCHANGED tokens
       ELSE IF r.op = "login" /\ AdminRoleMismatch(FALSE, users[n])
       THEN LocalDone(i, 403, "Forbidden", FALSE, NoToken) /\ UNCHANGED tokens
       ELSE IF r.op = "login" /\ ~LoginRequiresVerification(users[n])
       THEN /\ Keep(LoginToken(n, now))
            /\ inflight' = [inflight EXCEPT ![i].pc = "done", ![i].n = n,
                                            ![i].status = 200,
                                            ![i].token = LoginToken(n, now)]
            /\ response' = Respond("login", 200, "OK", LoginToken(n, now),
                                   Undefined, [uid |-> n])
       ELSE /\ inflight' = [inflight EXCEPT ![i].pc = "save", ![i].n = n]
            /\ UNCHANGED <<tokens, response>>

\* user = await User.create({...}); generateOTP(); save(); sendOTPEmail(...)
LocalCreate(i) ==
    LET r == inflight[i] IN
    /\ r.pc = "create"
    /\ IF EmailUnique /\ RegisterUserExists(r.email)
       THEN /\ UNCHANGED <<users, otpLog>>
            /\ LocalDone(i, 500, "E11000 duplicate key", FALSE, NoToken)
       ELSE /\ Len(users) < MaxUsers
            /\ users' = Append(users,
                   RegisterCreated("A", r.email, "p1", FALSE, r.code, now))
            /\ otpLog' = Append(otpLog, LogRegister(r.code, TRUE))
            /\ inflight' = [inflight EXCEPT ![i].pc = "done", ![i].n = Len(users'),
                                            ![i].status = 200]
            /\ response' = Respond("register", 200, "registered", NoToken,
                                   DevOtp(r.code), [uid |-> Len(users')])
    /\ UNCHANGED <<now, env, req, tokens>>

\* await user.save() of verify-email, resend-verification and login, and the
\* response that follows it
LocalSave(i) ==
    LET r == inflight[i] IN
    /\ r.pc = "save"
    /\ IF r.op = "verifyEmail"
       THEN /\ users' = [users EXCEPT ![r.n] = MarkVerified(@)]
            /\ otpLog' = [otpLog EXCEPT ![r.n] = LogAccept(@, r.code)]
            /\ IF "signToken" \in ControllerBindings
               THEN LocalDone(i, 200, "Email verified successfully", TRUE,
                              generateToken(Doc(r.n)._id, now))
               ELSE LocalDone(i, 500, "signToken is not defined", TRUE, NoToken)
       ELSE /\ users' = [users EXCEPT ![r.n] = ReissueChallenge(@, r.code, now)]
            /\ otpLog' = [otpLog EXCEPT ![r.n] =
                   IF r.op = "login" THEN LogNotHanded(LogIssue(@, r.code))
                                     ELSE LogIssue(@, r.code)]
            /\ IF r.op = "login"
               THEN LocalDone(i, 401, "Please verify your email first", FALSE,
                              NoToken)
               ELSE LocalDone(i, 200, "Verification email sent successfully",
                              FALSE, NoToken)
    /\ UNCHANGED <<now, env, req, tokens>>

NextLocalRace ==
    \/ \E c \in Codes : register("A", "a@x.com", "p1", FALSE, c, TRUE)
    \/ \E op \in RaceOps, c \in Codes : LocalArrive(op, "a@x.com", c)
    \/ \E i \in 1..Len(inflight) : LocalFindOne(i)
    \/ \E i \in 1..Len(inflight) : LocalCreate(i)
    \/ \E i \in 1..Len(inflight) : LocalSave(i)

SpecLocalRace == InitDev /\ [][NextLocalRace]_vars

(***************************************************************************)
(* The local flows with an email capability that delivers, and the owner   *)
(* of a local account who acts on what the mailbox holds.                  *)
(***************************************************************************)
\* account n is a local account of the store
IsLocal(n) == n \in 1..Len(users) /\ users[n].method = "local"

\* the code delivered last to the owner of account n is the one of the stored
\* challenge and has not expired
HasDeliveredCode(n) ==
    /\ otpLog[n].last # ""
    /\ otpLog[n].handed
    /\ verifyOTP(users[n], otpLog[n].last, now)

\* POST /verify-email with the code delivered last
OwnerVerify(n) ==
    /\ IsLocal(n) /\ ~users[n].isEmailVerified /\ HasDeliveredCode(n)
    /\ verifyEmail(users[n].email, otpLog[n].last)

\* POST /resend-verification when the mailbox holds no code that still works
OwnerResend(n) ==
    /\ IsLocal(n) /\ ~users[n].isEmailVerified /\ ~HasDeliveredCode(n)
    /\ \E c \in Codes : resendVerification(users[n].email, c, TRUE)

\* POST /login or /admin/login, whichever matches the role, with the password
\* the account was registered with
OwnerLogin(n) ==
    /\ IsLocal(n) /\ users[n].isEmailVerified
    /\ \E c \in Codes :
          login(users[n].email, users[n].password.pre, users[n].role = "admin", c)

LiveRequest ==
    \/ \E e \in RegisterEmails, p \in RegisterPasswords, a \in BOOLEAN, c \in Codes :
          register("A", e, p, a, c, TRUE)
    \/ \E e \in RawEmails, c \in Codes : resendVerification(e, c, TRUE)
    \/ \E e \in RawEmails, p \in Passwords, a \in BOOLEAN, c \in Codes :
          login(e, p, a, c)
    \/ \E e \in RawEmails, c \in Codes : verifyEmail(e, c)

NextLive ==
    \/ Tick
    \/ LiveRequest

\* the owner gets to submit a delivered code that keeps being there, asks for a
\* new one when there is none, and logs in once verified
OwnerFairness ==
    \A n \in 1..MaxUsers :
        /\ SF_vars(OwnerVerify(n))
        /\ WF_vars(OwnerResend(n))
        /\ WF_vars(OwnerLogin(n))

SpecLive == Init /\ [][NextLive]_vars /\ OwnerFairness
(***************************************************************************)
(* Properties.                                                             *)
(***************************************************************************)
Issued == (tokens \cup {response.token}) \ {NoToken}

\* C1: every session token that was issued was issued for an account that is
\* federated, or local with isEmailVerified = true (the method never changes and
\* isEmailVerified never goes back to false, so the account's state at the
\* moment of issue is its state ever after).
C1_TokenOnlyIfVerifiedOrFederated ==
    \A tok \in Issued :
        /\ tok.id.n \in 1..Len(users)
        /\ \/ users[tok.id.n].method # "local"
           \/ users[tok.id.n].isEmailVerified

C1_Witness ==
    /\ response.op = "login"
    /\ response.token # NoToken
    /\ users[response.g.uid].method = "local"
    /\ users[response.g.uid].isEmailVerified

\* C2: a register request whose email is not taken adds exactly one account,
\* unverified and with an outstanding challenge, and its response has no token.
C2_RegisterCreatesOneUnverified ==
    (response.op = "register" /\ ~response.g.taken) =>
        /\ response.g.added = 1
        /\ Len(users) >= response.g.uid
        /\ ~users[response.g.uid].isEmailVerified
        /\ users[response.g.uid].otpSecret # NoHash
        /\ users[response.g.uid].otpExpires # NoExpires
        /\ response.token = NoToken

C2_Witness ==
    /\ response.op = "register"
    /\ ~response.g.taken
    /\ response.status = 200
    /\ response.g.added = 1

\* C3 (as claimed): verify-email with the outstanding, unexpired code answers
\* with a token and leaves the account verified with no challenge.
C3_VerifyCurrentCodeIssuesToken ==
    (response.op = "verifyEmail" /\ response.g.current /\ ~response.g.expired) =>
        /\ response.status = 200
        /\ response.token # NoToken
        /\ users[response.g.uid].isEmailVerified
        /\ users[response.g.uid].otpSecret = NoHash

\* C4: verify-email with a code that is not the outstanding one, or with no
\* challenge outstanding, answers 401 without a token and leaves the store as it
\* was (so the flag and the challenge are the ones from before).
C4_WrongCodeChangesNothing ==
    (response.op = "verifyEmail" /\ response.g.uid # 0 /\ ~response.g.current) =>
        /\ response.status = 401
        /\ response.token = NoToken
        /\ ~response.g.changed

C4_Witness ==
    /\ response.op = "verifyEmail"
    /\ response.g.outstanding
    /\ ~response.g.current
    /\ ~response.g.expired
    /\ response.status = 401
    /\ ~users[response.g.uid].isEmailVerified
    /\ verifyOTP(users[response.g.uid], otpLog[response.g.uid].last, now)

\* C5: once the clock has passed expiresAt, verify-email fails for every code,
\* the outstanding one included: 401, no token, the account stays unverified.
C5_ExpiredCodeFails ==
    (response.op = "verifyEmail" /\ response.g.expired) =>
        /\ response.status = 401
        /\ response.token = NoToken
        /\ ~response.g.changed
        /\ ~users[response.g.uid].isEmailVerified

C5_Witness ==
    /\ response.op = "verifyEmail"
    /\ response.g.expired
    /\ response.g.current
    /\ response.status = 401

\* C6: a code that verify-email has accepted once is refused on every later
\* verify-email of the same account, and no token is issued.
C6_AcceptedCodeIsSingleUse ==
    (response.op = "verifyEmail" /\ response.g.replay) =>
        /\ response.status = 401
        /\ response.token = NoToken

C6_Witness ==
    /\ response.op = "verifyEmail"
    /\ response.g.replay
    /\ response.status = 401
    /\ users[response.g.uid].isEmailVerified

\* C7: once resend-verification or a login has issued and saved a new challenge,
\* verify-email with a code issued earlier (and replaced since) fails.
C7_ReissueInvalidatesOldCode ==
    (response.op = "verifyEmail" /\ response.g.superseded) =>
        /\ response.status = 401
        /\ response.token = NoToken
        /\ ~response.g.changed

C7_Witness ==
    /\ response.op = "verifyEmail"
    /\ response.g.superseded
    /\ response.g.outstanding
    /\ ~response.g.expired
    /\ response.status = 401

AccountsOf(provider, pid) ==
    {i \in 1..Len(users) : ProviderId(users[i], provider) = pid}

\* C8: with callbacks handled one after the other the store holds at most one
\* account per (provider, providerId); a known providerId resolves to the
\* existing account, creates nothing and leaves name, email and avatar alone
\* (also through the controller's step); an unknown one creates one account
\* with method = the provider and role = user.
C8_OnePerProviderId ==
    /\ \A pr \in Providers, pid \in ProviderIds : Cardinality(AccountsOf(pr, pid)) <= 1
    /\ response.op = "passport" =>
         /\ req.active /\ req.n = response.g.uid
         /\ ProviderId(users[req.n], req.provider) \in ProviderIds
         /\ IF response.g.known
            THEN response.g.added = 0 /\ ~response.g.changed
            ELSE /\ response.g.added = 1 /\ ~response.g.changed
                 /\ req.n = Len(users)
                 /\ users[req.n].method = req.provider
                 /\ users[req.n].role = "user"
    /\ response.op = "oauthCallback" => ~response.g.identityChanged

C8_Witness ==
    /\ response.op = "passport"
    /\ response.g.known
    /\ response.g.drift
    /\ Len(users) = MaxUsers

\* C9 (as claimed): two overlapping callbacks for the same new providerId end
\* with one account, which both of them resolve to, and neither fails.
C9_RaceCreatesOneAccount ==
    \A i, j \in 1..Len(inflight) :
        (/\ i # j
         /\ inflight[i].provider = inflight[j].provider
         /\ inflight[i].profile.id = inflight[j].profile.id
         /\ inflight[i].pc \in {"callback", "done", "failed"}
         /\ inflight[j].pc \in {"callback", "done", "failed"}) =>
            /\ inflight[i].pc # "failed"
            /\ inflight[j].pc # "failed"
            /\ inflight[i].user.n = inflight[j].user.n
            /\ Cardinality(AccountsOf(inflight[i].provider, inflight[i].profile.id)) = 1

\* C10: a login with the right password answers 403 without a token when the
\* admin-intent flag and the stored role disagree, in both directions; login
\* hands out a token only when they agree.
C10_LoginSurfaceMatchesRole ==
    (response.op = "login" /\ response.g.uid # 0) =>
        LET role == users[response.g.uid].role
            agree == (response.g.isAdminLogin <=> role = "admin") IN
        /\ (response.g.credsOk /\ ~agree) =>
               (response.status = 403 /\ response.token = NoToken)
        /\ response.token # NoToken => agree

C10_Witness ==
    /\ response.op = "login"
    /\ response.g.credsOk
    /\ ~response.g.isAdminLogin
    /\ users[response.g.uid].role = "admin"
    /\ users[response.g.uid].isEmailVerified
    /\ response.status = 403

\* C11: update-role called with a token that authenticates (signed, unexpired,
\* resolving to an account) whose account is not an admin answers 403, and no
\* account of the store is changed by it; nor does a request whose token does
\* not authenticate change anything.
C11_NonAdminCannotChangeRoles ==
    (response.op = "updateUserRole" /\ response.g.callerRole # "admin") =>
        /\ ~response.g.changed
        /\ response.token = NoToken
        /\ response.status = (IF response.g.caller # 0 THEN 403 ELSE 401)

C11_Witness ==
    /\ response.op = "updateUserRole"
    /\ response.g.caller # 0
    /\ response.g.callerRole = "user"
    /\ response.g.uid # 0
    /\ response.status = 403
    /\ \E i \in 1..Len(users) : users[i].role = "admin"

\* C12 (as claimed): a token handed out by login, verify-email or an OAuth
\* callback, presented before its expiry, authenticates as the account it was
\* issued for.
C12_TokenResolvesToItsAccount ==
    (/\ response.op \in {"login", "verifyEmail", "oauthCallback"}
     /\ response.token \in tokens
     /\ now < response.token.exp) =>
        protect(response.token, now) = response.g.uid

\* C13 (as claimed): the claims of a token handed out by login, verify-email or
\* an OAuth callback are the id, the email and the stored role of the account it
\* was issued for.
C13_TokenClaimsAreTheAccounts ==
    (/\ response.op \in {"login", "verifyEmail", "oauthCallback"}
     /\ response.token # NoToken) =>
        /\ response.token.id = HexString(response.g.uid)
        /\ response.token.email = users[response.g.uid].email
        /\ response.token.role = users[response.g.uid].role

\* C14: an OAuth callback that came in on an admin route, of either provider,
\* leaves the account passport resolved (just created, or found with role =
\* user) stored with role = admin and hands out, in the same request, a token
\* for that account whose role claim is admin; the callback creates no OTP
\* challenge and sends no code, whether or not the account's email is verified.
C14_AdminRouteCallbackPromotes ==
    (response.op = "oauthCallback" /\ response.g.isAdminLogin) =>
        /\ users[response.g.uid].role = "admin"
        /\ response.token # NoToken
        /\ response.token.id = HexString(response.g.uid)
        /\ response.token.role = "admin"
        /\ ~response.g.challengeChanged
        /\ response.otp = Undefined

C14_Witness ==
    /\ response.op = "oauthCallback"
    /\ response.g.isAdminLogin
    /\ response.g.provider = "facebook"
    /\ response.g.known
    /\ response.g.priorRole = "user"
    /\ users[response.g.uid].role = "admin"
    /\ ~users[response.g.uid].isEmailVerified
    /\ response.token.role = "admin"

\* C15 (as claimed): the body of no response, of any operation, holds the
\* password hash of an account.
C15_NoResponseHoldsPasswordHash ==
    "password" \notin DOMAIN response.data

\* C16: a register whose email an account of the store already has (a local or
\* a federated one, in any letter case) answers 400 "User already exists" with
\* no token and no code, adds no account, issues no challenge and leaves every
\* account, the one with that email included, as it was.
C16_RegisterTakenEmailConflicts ==
    (response.op = "register" /\ response.g.taken) =>
        /\ response.status = 400
        /\ response.token = NoToken
        /\ response.otp = Undefined
        /\ response.g.added = 0
        /\ ~response.g.changed
        /\ ~response.g.issued

C16_Witness ==
    /\ response.op = "register"
    /\ response.g.taken
    /\ response.status = 400
    /\ users[response.g.uid].otpSecret # NoHash
    /\ users[response.g.uid].role = "admin"
    /\ Len(users) < MaxUsers

\* C17: when sendOTPEmail reports failure during register the response is the
\* 500 error with no token and no code, and the account it created is in the
\* store, unverified, with its challenge outstanding; a later register with the
\* email of such an account answers 400 and changes nothing, and a later
\* resend-verification for it, while it is unverified, saves a new challenge.
C17_DeliveryFailureKeepsAccount ==
    /\ (response.op = "register" /\ ~response.g.taken /\ ~response.g.emailSent) =>
          /\ response.status = 500
          /\ response.token = NoToken
          /\ response.otp = Undefined
          /\ response.g.added = 1
          /\ ~users[response.g.uid].isEmailVerified
          /\ users[response.g.uid].otpSecret # NoHash
    /\ (response.op = "register" /\ response.g.taken
            /\ ~otpLog[response.g.uid].regSent) =>
          /\ response.status = 400
          /\ response.g.added = 0
          /\ ~response.g.changed
    /\ (response.op = "resendVerification" /\ response.g.uid # 0
            /\ ~otpLog[response.g.uid].regSent /\ ~response.g.wasVerified) =>
          /\ response.g.issued
          /\ response.status \in {200, 500}

C17_Witness ==
    /\ response.op = "resendVerification"
    /\ response.g.uid # 0
    /\ ~otpLog[response.g.uid].regSent
    /\ response.status = 200
    /\ response.g.issued
    /\ otpLog[response.g.uid].old # {}

\* C18: a login with the right password and the admin-intent flag matching the
\* stored role, on an account whose isEmailVerified is false, saves a fresh
\* challenge on that account (the digest of a new code, expiring one TTL from
\* now) and answers 401 "Please verify your email first" without a token; the
\* account stays unverified.
C18_UnverifiedLoginReissues ==
    (/\ response.op = "login"
     /\ response.g.credsOk
     /\ ~response.g.wasVerified
     /\ (response.g.isAdminLogin <=> users[response.g.uid].role = "admin")) =>
        /\ response.status = 401
        /\ response.msg = "Please verify your email first"
        /\ response.token = NoToken
        /\ response.g.issued
        /\ otpLog[response.g.uid].last # ""
        /\ ~users[response.g.uid].isEmailVerified

C18_Witness ==
    /\ response.op = "login"
    /\ response.g.credsOk
    /\ ~response.g.wasVerified
    /\ response.g.isAdminLogin
    /\ response.status = 401
    /\ response.g.issued
    /\ otpLog[response.g.uid].old # {}
    /\ verifyOTP(users[response.g.uid], otpLog[response.g.uid].last, now)

\* C19: what update-role answers to a token that authenticates depends on the
\* role the account has in the store when the request is made, whatever the
\* role claim inside the token: stored role not admin (an admin demoted by an
\* earlier update-role, its token still saying admin) gives 403 and no change,
\* stored role admin (a user promoted since its token was issued, the token
\* still saying user) is let through to the handler.
C19_StoredRoleDecides ==
    (response.op = "updateUserRole" /\ response.g.caller # 0) =>
        IF response.g.callerRole = "admin"
        THEN response.status \in {200, 400, 404, 500}
        ELSE response.status = 403 /\ ~response.g.changed

C19_Witness ==
    /\ response.op = "updateUserRole"
    /\ response.g.caller # 0
    /\ response.g.tokenRole = "admin"
    /\ response.g.callerRole = "user"
    /\ response.status = 403

\* C20: logout changes no account, and every token that authenticated as an
\* account before the logout authenticates as the same account after it, for
\* as long as it has not expired.
C20_LogoutInvalidatesNothing ==
    response.op = "logout" =>
        /\ ~response.g.changed
        /\ response.status = 200
        /\ \A tok \in DOMAIN response.g.auth :
               (response.g.auth[tok] # 0 /\ now < tok.exp) =>
                   protect(tok, now) = response.g.auth[tok]

C20_Witness ==
    /\ response.op = "logout"
    /\ \E tok \in DOMAIN response.g.auth :
           /\ response.g.auth[tok] # 0
           /\ protect(tok, now) = response.g.auth[tok]
           /\ users[response.g.auth[tok]].role = "admin"

\* C21 (as claimed): update-role called by an admin answers 400 when the role
\* asked for is not user or admin and 404 when the target is no account of the
\* store, changing nothing in either case; otherwise the target's stored role
\* is the role asked for and no other account is changed.
C21_UpdateRoleOutcomes ==
    (response.op = "updateUserRole" /\ response.g.callerRole = "admin") =>
        IF response.g.role \notin {"user", "admin"}
        THEN response.status = 400 /\ ~response.g.changed
        ELSE IF response.g.uid = 0
        THEN response.status = 404 /\ ~response.g.changed
        ELSE /\ response.status = 200
             /\ users[response.g.uid].role = response.g.role
             /\ ~response.g.othersChanged

\* C22: with NODE_ENV = production no response carries the plaintext code, the
\* responses of register, login and resend-verification that issued one
\* included; a response carries a code only in development, and then it is the
\* code of the challenge just saved.
C22_NoPlaintextCodeInProduction ==
    /\ env = "production" => response.otp = Undefined
    /\ response.otp # Undefined =>
          /\ env = "development"
          /\ response.op \in {"register", "login", "resendVerification"}
          /\ response.otp = otpLog[response.g.uid].last

C22_Witness ==
    /\ env = "production"
    /\ response.op = "login"
    /\ response.status = 401
    /\ response.g.issued
    /\ response.otp = Undefined
    /\ verifyOTP(users[response.g.uid], otpLog[response.g.uid].last, now)

\* the accounts of the store whose email is e
AccountsWithEmail(e) == {i \in 1..Len(users) : users[i].email = Lower(e)}

\* C23 (as claimed): when two register requests with the same email overlap
\* and both have answered, the store holds at most one account with that
\* email and one of the two answered 400 "User already exists".
C23_RaceRegistersOneAccount ==
    \A i, j \in 1..Len(inflight) :
        (/\ i # j
         /\ inflight[i].op = "register" /\ inflight[j].op = "register"
         /\ Lower(inflight[i].email) = Lower(inflight[j].email)
         /\ inflight[i].pc = "done" /\ inflight[j].pc = "done") =>
            /\ Cardinality(AccountsWithEmail(inflight[i].email)) <= 1
            /\ inflight[i].status = 400 \/ inflight[j].status = 400

\* C24 (as claimed): in every state, whatever the interleaving of verify-email,
\* resend-verification and login requests, an account whose isEmailVerified is
\* true has no challenge stored.
C24_VerifiedHasNoChallenge ==
    \A n \in 1..Len(users) :
        users[n].isEmailVerified =>
            users[n].otpSecret = NoHash /\ users[n].otpExpires = NoExpires

RolesOf(us) == [i \in 1..Len(us) |-> us[i].role]

\* C26: a step changes the role of an account already in the store only when
\* it is an update-role that an admin was let through to and that answered
\* 200, or an OAuth callback that came in on an admin route; every other
\* request (login, verify-email, resend-verification, register, the current
\* account, logout, a callback on a plain route) leaves those roles as they
\* were, so a plain-route callback never demotes an admin.
C26_RoleChangesOnlyByGateOrAdminRoute ==
    [][SubSeq(RolesOf(users'), 1, Len(users)) # RolesOf(users) =>
          \/ /\ response'.op = "updateUserRole"
             /\ response'.status = 200
             /\ response'.g.callerRole = "admin"
          \/ /\ response'.op = "oauthCallback"
             /\ response'.g.isAdminLogin]_vars

C26_Witness ==
    /\ response.op = "oauthCallback"
    /\ ~response.g.isAdminLogin
    /\ response.g.priorRole = "admin"
    /\ users[response.g.uid].role = "admin"
    /\ response.token.role = "admin"

\* C28 (as claimed): with NODE_ENV = production, the code of every challenge
\* stored on an account is one that was passed to sendOTPEmail for that
\* account; no request replaces such a code with one that was passed nowhere.
C28_OutstandingCodeWasHandedToEmail ==
    env = "production" =>
        \A n \in 1..Len(users) :
            users[n].otpSecret # NoHash => otpLog[n].handed

\* C29 (as claimed): an account that an OAuth callback created never has a
\* challenge stored and never has isEmailVerified true, and no
\* resend-verification or verify-email addressed to its email hands out a
\* token for it.
C29_NoChallengeOnFederatedAccounts ==
    /\ \A n \in 1..Len(users) :
          users[n].method # "local" =>
              /\ users[n].otpSecret = NoHash
              /\ users[n].otpExpires = NoExpires
              /\ ~users[n].isEmailVerified
    /\ (/\ response.op \in {"resendVerification", "verifyEmail"}
        /\ response.g.uid # 0
        /\ users[response.g.uid].method # "local") => response.token = NoToken

\* C30: a login that is refused for its credentials (no account with that
\* email, or a wrong password: 401 "Invalid credentials") or for its surface
\* (admin-intent flag and stored role disagree: 403) leaves the store as it
\* was and hands out neither a token nor a code; the challenge of an
\* unverified account is the one from before.
C30_RefusedLoginChangesNothing ==
    response.op = "login" =>
        /\ ~response.g.credsOk =>
              /\ response.status = 401
              /\ response.msg = "Invalid credentials"
              /\ ~response.g.changed
              /\ response.token = NoToken /\ response.otp = Undefined
        /\ (/\ response.g.credsOk
            /\ ~(response.g.isAdminLogin <=> users[response.g.uid].role = "admin")) =>
              /\ response.status = 403
              /\ ~response.g.changed
              /\ response.token = NoToken /\ response.otp = Undefined

C30_Witness ==
    /\ response.op = "login"
    /\ response.g.credsOk
    /\ ~response.g.isAdminLogin
    /\ users[response.g.uid].role = "admin"
    /\ ~response.g.wasVerified
    /\ response.status = 403
    /\ ~response.g.changed
    /\ otpLog[response.g.uid].handed
    /\ verifyOTP(users[response.g.uid], otpLog[response.g.uid].last, now)

====
